---- MODULE Spec2Model ----
(***************************************************************************)
(* A model of the gossip node of nohmar/tranquility.                       *)
(*                                                                         *)
(* src/src/node.rs holds the node: every inbound line is handled by its    *)
(* own task (Node::run), whose handler (Node::handle_from_stdin) takes the *)
(* state lock twice: once in Node::run_callback (the pre-dispatch          *)
(* mutation) and once to allocate the reply id and build the reply.  A     *)
(* Broadcast of a new value spawns a retry task that loops over            *)
(* Node::retry, Node::filter_messages and Node::send_message, each of      *)
(* which takes the state lock on its own.  A panic while the lock is held  *)
(* poisons the std Mutex: every later lock().unwrap() panics.              *)
(* src/src/message.rs holds the wire types, the shape-based classifier     *)
(* and the replies.                                                        *)
(***************************************************************************)
EXTENDS Integers, Sequences, FiniteSets, Bags, TLC

\* ------------------------------------------------------------------ bounds

\* Inbound lines the environment feeds the node over one run.
MaxMsgs == 3
\* Handler tasks that are between their two critical sections at one time.
MaxHandlers == 2

\* ------------------------------------------------------------ input space

\* Option::None of a string field, of a number field, of the topology map.
NoStr == "null"
NoNum == -1
NoTopology == [n \in {NoStr} |-> <<>>]

Values == {0, 1}
Clients == {"c1"}
Peers == {"n2", "n3"}

\* A decoded line: the envelope and the fields of its body, absent ones None.
Msg(src, dest, type, msg_id, in_reply_to, node_id, echo, message, topology) ==
    [src |-> src, dest |-> dest, type |-> type, msg_id |-> msg_id,
     in_reply_to |-> in_reply_to, node_id |-> node_id, echo |-> echo,
     message |-> message, topology |-> topology]

TopologyFull == [n \in {"n1", "n2", "n3"} |->
                    IF n = "n1" THEN <<"n2", "n3">> ELSE <<"n1">>]
TopologyOther == [n \in {"n2"} |-> <<"n3">>]
TopologyOne == [n \in {"n1"} |-> <<"n2">>]

InitMsgs ==
    {Msg("c1", "n1", "init", 1, NoNum, nid, NoStr, NoNum, NoTopology) :
        nid \in {"n1", "n2"}}
EchoMsgs ==
    {Msg("c1", "n1", "echo", 1, NoNum, NoStr, "hello", NoNum, NoTopology)}
GenerateMsgs ==
    {Msg("c1", "n1", "generate", 1, NoNum, NoStr, NoStr, NoNum, NoTopology)}
ReadMsgs ==
    {Msg("c1", "n1", "read", mid, NoNum, NoStr, NoStr, NoNum, NoTopology) :
        mid \in {1, NoNum}}
TopologyMsgs ==
    {Msg("c1", "n1", "topology", 1, NoNum, NoStr, NoStr, NoNum, t) :
        t \in {TopologyFull, TopologyOther, TopologyOne}}
\* Broadcasts of each value from a client, one from a listed neighbor, and
\* one whose envelope has no src.
BroadcastMsgs ==
    {Msg("c1", "n1", "broadcast", v + 1, NoNum, NoStr, NoStr, v, NoTopology) :
        v \in Values}
      \cup {Msg("n2", "n1", "broadcast", 2, NoNum, NoStr, NoStr, 1,
                NoTopology),
            Msg(NoStr, "n1", "broadcast", 1, NoNum, NoStr, NoStr, 0,
                NoTopology)}
\* Acknowledgments: from the peer a copy went to and from another one, for
\* ids the node has and has not handed out, to this node and to another.
BroadcastOkMsgs ==
    {Msg(a[1], a[2], "broadcast_ok", NoNum, a[3], NoStr, NoStr, NoNum,
         NoTopology) :
        a \in {<<"n2", "n1", 1>>, <<"n2", "n1", 2>>, <<"n2", "n1", 3>>,
               <<"n3", "n1", 3>>, <<"n2", "n2", 2>>}}
\* A line that is no envelope at all (its body has no type).
GarbageMsgs ==
    {Msg("c1", "n1", NoStr, NoNum, NoNum, NoStr, NoStr, NoNum, NoTopology)}

Inbound ==
    InitMsgs \cup EchoMsgs \cup GenerateMsgs \cup ReadMsgs \cup TopologyMsgs
        \cup BroadcastMsgs \cup BroadcastOkMsgs \cup GarbageMsgs

\* ------------------------------------------------------------------ state

VARIABLES
    node,       \* the Node struct behind the state lock
    poisoned,   \* the state Mutex is poisoned (a holder panicked)
    handlers,   \* bag of the handler tasks between run_callback and the reply
    tasks,      \* the retry tasks, one per dissemination event, in spawn order
    sent,       \* the Broadcast envelopes written to stdout so far
    reply,      \* the reply the last step queued for output, or NoReply
    received    \* number of inbound lines read so far

vars == <<node, poisoned, handlers, tasks, sent, reply, received>>

\* Node::default(): no id, empty collections, counter 0.
NewNode ==
    [id |-> NoStr,
     messages |-> {},
     topology |-> <<>>,
     current_message_id |-> 0,
     response_callbacks |-> {},
     unacknowledged_messages |-> {}]

\* ------------------------------------------------- message.rs: classifier

\* A parser that accepts every line.
ParsesAnything(m) == TRUE

\* serde_json::from_str::<Message>: every variant of MessageBody needs a
\* string "type", so a body without one matches no variant and the line is
\* rejected before Message::new is reached.
Parses(m) == m.type # NoStr

\* The acknowledgment body node.rs matches on (MessageBody::BroadcastOk with
\* a non-optional in_reply_to).
IsBroadcastOkShape(m) == m.in_reply_to # NoNum

\* MessageBody is #[serde(untagged)]: the first variant whose required
\* fields are all present wins, in declaration order Init, Echo, Broadcast,
\* Topology, Read, Generate.  ReadBody requires only "type", so every body
\* that reaches it is a Read and the Generate variant is never chosen.
\* Message::new maps the variant to the MessageKind of the same name.
MessageNew(m) ==
    IF m.node_id # NoStr THEN "Init"
    ELSE IF m.echo # NoStr THEN "Echo"
    ELSE IF m.message # NoNum THEN "Broadcast"
    ELSE IF m.topology # NoTopology THEN "Topology"
    ELSE IF IsBroadcastOkShape(m) THEN "BroadcastOk"
    ELSE "Read"

\* --------------------------------------------------------------- node.rs

\* next_message_id without the increment: the current value is handed out
\* again.
next_message_idAgain(n) == n

\* Node::next_message_id: increments the counter; the new value is the id.
next_message_id(n) ==
    [n EXCEPT !.current_message_id = n.current_message_id + 1]

\* The filter_map without the test on the sender: a pair for every entry
\* of topology.
RECURSIVE mapped_messagesToAll(_, _, _)
mapped_messagesToAll(topology, src, cur) ==
    IF topology = <<>> THEN <<>>
    ELSE <<<<Head(topology), cur + 1>>>>
             \o mapped_messagesToAll(Tail(topology), src, cur + 1)

\* The filter_map of the Broadcast arm: one (neighbor, fresh id) pair per
\* entry of topology that is not the sender, ids taken from the counter in
\* list order.  cur is the counter before the first allocation.
RECURSIVE mapped_messages(_, _, _)
mapped_messages(topology, src, cur) ==
    IF topology = <<>> THEN <<>>
    ELSE IF Head(topology) = src
         THEN mapped_messages(Tail(topology), src, cur)
         ELSE <<<<Head(topology), cur + 1>>>>
                  \o mapped_messages(Tail(topology), src, cur + 1)

Range(s) == {s[i] : i \in DOMAIN s}
Ids(mapped) == {p[2] : p \in Range(mapped)}

\* What the spawned retry task captures: body_clone and mapped_messages.
\* todo is the list filter_messages returned that is still to be sent.
NewTask(value, mapped) ==
    [value |-> value, mapped |-> mapped, pc |-> "retry", todo |-> <<>>]

\* The outcome of a critical section: the node it leaves, whether it
\* panicked with the lock held, and the retry tasks it spawned.
Outcome(n, panic, spawn) == [node |-> n, panic |-> panic, spawn |-> spawn]

\* An Init arm that starts from a new node.
RunInitReset(n, m) == Outcome([NewNode EXCEPT !.id = m.node_id], FALSE, <<>>)

\* run_callback, Init arm.
RunInit(n, m) == Outcome([n EXCEPT !.id = m.node_id], FALSE, <<>>)

\* A BroadcastOk arm that listens to acknowledgments from n2 only.
RunBroadcastOkFromN2(n, m) ==
    IF n.id = NoStr THEN Outcome(n, TRUE, <<>>)
    ELSE IF m.dest # n.id \/ m.src # "n2" THEN Outcome(n, FALSE, <<>>)
    ELSE Outcome([n EXCEPT
                     !.response_callbacks = @ \ {m.in_reply_to},
                     !.unacknowledged_messages = @ \ {m.in_reply_to}],
                 FALSE, <<>>)

\* The BroadcastOk arm with a callback that leaves unacknowledged_messages
\* alone.
RunBroadcastOkNoRemove(n, m) ==
    IF n.id = NoStr THEN Outcome(n, TRUE, <<>>)
    ELSE IF m.dest # n.id THEN Outcome(n, FALSE, <<>>)
    ELSE Outcome([n EXCEPT !.response_callbacks = @ \ {m.in_reply_to}],
                 FALSE, <<>>)

\* run_callback, BroadcastOk arm.  node.id.clone().unwrap() panics while the
\* id is unset.  The stored callback removes its own message id from
\* unacknowledged_messages.
RunBroadcastOk(n, m) ==
    IF n.id = NoStr THEN Outcome(n, TRUE, <<>>)
    ELSE IF m.dest # n.id THEN Outcome(n, FALSE, <<>>)
    ELSE IF m.in_reply_to \in n.response_callbacks
         THEN Outcome([n EXCEPT
                          !.response_callbacks = @ \ {m.in_reply_to},
                          !.unacknowledged_messages = @ \ {m.in_reply_to}],
                      FALSE, <<>>)
         ELSE Outcome(n, FALSE, <<>>)

\* let is_message_seen = node.messages.contains(&body.message)
is_message_seen(n, m) == m.message \in n.messages

\* A Broadcast arm that does nothing.
RunBroadcastNoInsert(n, m) == Outcome(n, FALSE, <<>>)

\* The Broadcast arm without the is_message_seen test: every Broadcast fans
\* out again.
RunBroadcastNoDedup(n, m) ==
    LET mapped == mapped_messages(n.topology, m.src, n.current_message_id)
    IN  IF n.topology # <<>> /\ m.src = NoStr
        THEN Outcome([n EXCEPT !.messages = @ \cup {m.message}], TRUE, <<>>)
        ELSE Outcome(
               [n EXCEPT
                   !.messages = @ \cup {m.message},
                   !.current_message_id = @ + Len(mapped),
                   !.unacknowledged_messages = @ \cup Ids(mapped)],
               FALSE,
               <<NewTask(m.message, mapped)>>)

\* run_callback, Broadcast arm.  A value already in messages changes nothing.
\* A new value is inserted first; then message.src.clone().unwrap() is
\* evaluated for the first neighbor, and panics when the sender is absent.
RunBroadcast(n, m) ==
    IF is_message_seen(n, m) THEN Outcome(n, FALSE, <<>>)
    ELSE LET inserted == [n EXCEPT !.messages = @ \cup {m.message}]
             mapped == mapped_messages(n.topology, m.src,
                                       n.current_message_id)
         IN  IF n.topology # <<>> /\ m.src = NoStr
             THEN Outcome(inserted, TRUE, <<>>)
             ELSE Outcome(
                    [inserted EXCEPT
                        !.current_message_id = @ + Len(mapped),
                        !.unacknowledged_messages = @ \cup Ids(mapped)],
                    FALSE,
                    <<NewTask(m.message, mapped)>>)

\* A Topology arm that also forgets the copies in flight.
RunTopologyForgets(n, m) ==
    IF n.id = NoStr THEN Outcome(n, TRUE, <<>>)
    ELSE IF n.id \in DOMAIN m.topology
         THEN Outcome([n EXCEPT !.topology = m.topology[n.id],
                                !.unacknowledged_messages = {}],
                      FALSE, <<>>)
         ELSE Outcome(n, FALSE, <<>>)

\* run_callback, Topology arm.  node.id.to_owned().unwrap() panics while the
\* id is unset.
RunTopology(n, m) ==
    IF n.id = NoStr THEN Outcome(n, TRUE, <<>>)
    ELSE IF n.id \in DOMAIN m.topology
         THEN Outcome([n EXCEPT !.topology = m.topology[n.id]], FALSE, <<>>)
         ELSE Outcome(n, FALSE, <<>>)

\* Node::run_callback, with the state lock held.
run_callback(n, m) ==
    LET kind == MessageNew(m)
    IN  IF kind = "Init" THEN RunInit(n, m)
        ELSE IF kind = "BroadcastOk" THEN RunBroadcastOk(n, m)
        ELSE IF kind = "Broadcast" THEN RunBroadcast(n, m)
        ELSE IF kind = "Topology" THEN RunTopology(n, m)
        ELSE Outcome(n, FALSE, <<>>)

\* Node::retry: true while the shared set holds any id at all.
retry(n) == n.unacknowledged_messages # {}

\* filter_messages handing out new ids, taken above the counter, for the
\* pairs it keeps.
filter_messagesNewIds(n, mapped) ==
    LET kept == SelectSeq(mapped,
                          LAMBDA p : p[2] \in n.unacknowledged_messages)
    IN  [k \in DOMAIN kept |-> <<kept[k][1], n.current_message_id + k>>]

\* Node::filter_messages: the pairs of this event whose id is still in the
\* shared set, in the order of mapped_messages.
filter_messages(n, mapped) ==
    SelectSeq(mapped, LAMBDA p : p[2] \in n.unacknowledged_messages)

\* The envelope Node::send_message writes.
Envelope(n, value, node_id, message_id) ==
    [src |-> n.id, dest |-> node_id, msg_id |-> message_id,
     message |-> value]

\* send_message storing no callback.
send_messageNoCallback(n, message_id) == n

\* Node::send_message: after the write, the callback is stored unless the
\* table already has the key.
send_message(n, message_id) ==
    [n EXCEPT !.response_callbacks = @ \cup {message_id}]

\* ---------------------------------------------------- message.rs: replies

Reply(type, src, dest, msg_id, in_reply_to, echo, messages) ==
    [type |-> type, src |-> src, dest |-> dest, msg_id |-> msg_id,
     in_reply_to |-> in_reply_to, echo |-> echo, messages |-> messages]

NoReply == Reply(NoStr, NoStr, NoStr, NoNum, NoNum, NoStr, {})

\* What building a reply ends in: a panic with the lock held, or the reply
\* (NoReply when generate_response returns None).
Built(panic, r) == [panic |-> panic, reply |-> r]

\* The acknowledgment is consumed by run_callback; no reply is produced.
RespondBroadcastOk(n, m, id) == Built(FALSE, NoReply)

\* The arms of MessageKind::generate_response.  Each unwraps the sender for
\* dest; the Broadcast, Read and Topology arms also unwrap the request's
\* msg_id for in_reply_to.  An unwrap of an absent field panics.
RespondInit(n, m, id) ==
    IF m.src = NoStr THEN Built(TRUE, NoReply)
    ELSE Built(FALSE, Reply("init_ok", n.id, m.src, id, m.msg_id, NoStr, {}))

\* The Echo arm answering without the request's payload.
RespondEchoNoPayload(n, m, id) ==
    IF m.src = NoStr THEN Built(TRUE, NoReply)
    ELSE Built(FALSE, Reply("echo_ok", n.id, m.src, id, m.msg_id, NoStr, {}))

RespondEcho(n, m, id) ==
    IF m.src = NoStr THEN Built(TRUE, NoReply)
    ELSE Built(FALSE, Reply("echo_ok", n.id, m.src, id, m.msg_id, m.echo, {}))

RespondBroadcast(n, m, id) ==
    IF m.src = NoStr \/ m.msg_id = NoNum THEN Built(TRUE, NoReply)
    ELSE Built(FALSE, Reply("broadcast_ok", n.id, m.src, id, m.msg_id,
                            NoStr, {}))

\* The Read arm answering with an empty set instead of node.messages.
RespondReadEmpty(n, m, id) ==
    IF m.type # "read" THEN Built(FALSE, NoReply)
    ELSE IF m.src = NoStr \/ m.msg_id = NoNum THEN Built(TRUE, NoReply)
    ELSE Built(FALSE, Reply("read_ok", n.id, m.src, id, m.msg_id, NoStr, {}))

\* The Read arm returns None, before any unwrap, for a type other than
\* "read"; its reply carries a clone of node.messages.
RespondRead(n, m, id) ==
    IF m.type # "read" THEN Built(FALSE, NoReply)
    ELSE IF m.src = NoStr \/ m.msg_id = NoNum THEN Built(TRUE, NoReply)
    ELSE Built(FALSE, Reply("read_ok", n.id, m.src, id, m.msg_id, NoStr,
                            n.messages))

RespondTopology(n, m, id) ==
    IF m.src = NoStr \/ m.msg_id = NoNum THEN Built(TRUE, NoReply)
    ELSE Built(FALSE, Reply("topology_ok", n.id, m.src, id, m.msg_id,
                            NoStr, {}))

\* The Generate arm: besides the sender it needs the node id, without which
\* Node::generate_uuid panics.  The generated id is not modelled.
RespondGenerate(n, m, id) ==
    IF m.src = NoStr \/ n.id = NoStr THEN Built(TRUE, NoReply)
    ELSE Built(FALSE, Reply("generate_ok", n.id, m.src, id, m.msg_id,
                            NoStr, {}))

\* The Invalid arm: an InvalidResponse from this node to the sender with the
\* fixed body, which has neither a type nor ids.
InvalidBody == "There was an error."
RespondInvalid(n, m, id) ==
    IF m.src = NoStr THEN Built(TRUE, NoReply)
    ELSE Built(FALSE, Reply(InvalidBody, n.id, m.src, NoNum, NoNum, NoStr, {}))

\* MessageKind::generate_response as handle_from_stdin calls it: with the
\* locked node and the id allocated for the reply.
generate_response(n, m, id) ==
    LET kind == MessageNew(m)
    IN  IF kind = "Init" THEN RespondInit(n, m, id)
        ELSE IF kind = "Echo" THEN RespondEcho(n, m, id)
        ELSE IF kind = "Broadcast" THEN RespondBroadcast(n, m, id)
        ELSE IF kind = "Read" THEN RespondRead(n, m, id)
        ELSE IF kind = "Topology" THEN RespondTopology(n, m, id)
        ELSE IF kind = "BroadcastOk" THEN RespondBroadcastOk(n, m, id)
        ELSE IF kind = "Generate" THEN RespondGenerate(n, m, id)
        ELSE RespondInvalid(n, m, id)

\* ---------------------------------------------------------------- actions

Init ==
    /\ node = NewNode
    /\ poisoned = FALSE
    /\ handlers = EmptyBag
    /\ tasks = <<>>
    /\ sent = {}
    /\ reply = NoReply
    /\ received = 0

\* A handler task: its line, its position, and whether run_callback found
\* the value of its Broadcast already in messages (is_message_seen).
Handler(m, pc, seen) == [msg |-> m, pc |-> pc, seen |-> seen]
One(h) == SetToBag({h})

\* Node::run reads the next line and spawns its handler task, which runs
\* handle_from_stdin up to the end of run_callback: a line that does not
\* parse ends the handler with Err; a poisoned lock panics the task; else
\* the arm of run_callback runs under the lock and the handler goes on to
\* its second critical section.  (The spawn itself touches no shared state,
\* so the line is read at the moment its handler first takes the lock.)
HandlerCallback(m) ==
    /\ received < MaxMsgs
    /\ BagCardinality(handlers) < MaxHandlers
    /\ received' = received + 1
    /\ reply' = NoReply
    /\ UNCHANGED sent
    /\ IF ~Parses(m) \/ poisoned
       THEN UNCHANGED <<node, poisoned, handlers, tasks>>
       ELSE LET r == run_callback(node, m)
            IN  /\ node' = r.node
                /\ poisoned' = r.panic
                /\ tasks' = tasks \o r.spawn
                /\ handlers' =
                     IF r.panic THEN handlers
                     ELSE handlers
                            (+) One(Handler(m, "respond",
                                            /\ MessageNew(m) = "Broadcast"
                                            /\ is_message_seen(node, m)))

\* A handler that answers only once nothing is unacknowledged.
HandlerRespondWaits(h) ==
    /\ node.unacknowledged_messages = {}
    /\ BagIn(h, handlers)
    /\ h.pc = "respond"
    /\ handlers' = handlers (-) One(h)
    /\ UNCHANGED <<tasks, sent, received>>
    /\ IF poisoned
       THEN /\ reply' = NoReply
            /\ UNCHANGED <<node, poisoned>>
       ELSE LET locked == next_message_id(node)
                b == generate_response(locked, h.msg,
                                       locked.current_message_id)
            IN  /\ node' = locked
                /\ poisoned' = b.panic
                /\ reply' = b.reply

\* A handler that answers and stays, so that it answers again.
HandlerRespondAgain(h) ==
    /\ BagIn(h, handlers)
    /\ h.pc = "respond"
    /\ ~poisoned
    /\ reply' = generate_response(node, h.msg, node.current_message_id).reply
    /\ UNCHANGED <<node, poisoned, handlers, tasks, sent, received>>

\* handle_from_stdin after run_callback: lock again, allocate the id, build
\* the reply; Node::run queues it for output.
HandlerRespond(h) ==
    /\ BagIn(h, handlers)
    /\ h.pc = "respond"
    /\ handlers' = handlers (-) One(h)
    /\ UNCHANGED <<tasks, sent, received>>
    /\ IF poisoned
       THEN /\ reply' = NoReply
            /\ UNCHANGED <<node, poisoned>>
       ELSE LET locked == next_message_id(node)
                b == generate_response(locked, h.msg,
                                       locked.current_message_id)
            IN  /\ node' = locked
                /\ poisoned' = b.panic
                /\ reply' = b.reply

SetTask(i, pc, todo) ==
    tasks' = [tasks EXCEPT ![i].pc = pc, ![i].todo = todo]

\* The retry task's loop test, Node::retry.
TaskRetry(i) ==
    /\ tasks[i].pc = "retry"
    /\ SetTask(i, IF poisoned THEN "panicked"
                  ELSE IF retry(node) THEN "filter" ELSE "done", <<>>)
    /\ reply' = NoReply
    /\ UNCHANGED <<node, poisoned, handlers, sent, received>>

\* Node::filter_messages; with nothing to send the task sleeps and loops.
TaskFilter(i) ==
    /\ tasks[i].pc = "filter"
    /\ IF poisoned THEN SetTask(i, "panicked", <<>>)
       ELSE LET todo == filter_messages(node, tasks[i].mapped)
            IN  SetTask(i, IF todo = <<>> THEN "retry" ELSE "send", todo)
    /\ reply' = NoReply
    /\ UNCHANGED <<node, poisoned, handlers, sent, received>>

\* One Node::send_message of the for loop; after the last one the task
\* sleeps and loops.
TaskSend(i) ==
    /\ tasks[i].pc = "send"
    /\ reply' = NoReply
    /\ UNCHANGED <<poisoned, handlers, received>>
    /\ IF poisoned
       THEN /\ SetTask(i, "panicked", <<>>)
            /\ UNCHANGED <<node, sent>>
       ELSE LET p == Head(tasks[i].todo)
                e == Envelope(node, tasks[i].value, p[1], p[2])
                rest == Tail(tasks[i].todo)
            IN  /\ sent' = sent \cup {e}
                /\ node' = send_message(node, p[2])
                /\ SetTask(i, IF rest = <<>> THEN "retry" ELSE "send", rest)

Next ==
    \/ \E m \in Inbound : HandlerCallback(m)
    \/ \E h \in BagToSet(handlers) : HandlerRespond(h)
    \/ \E i \in DOMAIN tasks : TaskRetry(i)
    \/ \E i \in DOMAIN tasks : TaskFilter(i)
    \/ \E i \in DOMAIN tasks : TaskSend(i)

Spec == Init /\ [][Next]_vars

\* The node after it has handled and answered an init naming it n1 and a
\* topology message listing n2 and n3 as its neighbors.
ReadyNode ==
    LET init == Msg("c1", "n1", "init", 1, NoNum, "n1", NoStr, NoNum,
                    NoTopology)
        topology == Msg("c1", "n1", "topology", 1, NoNum, NoStr, NoStr,
                        NoNum, TopologyFull)
        initialised == next_message_id(run_callback(NewNode, init).node)
    IN  next_message_id(run_callback(initialised, topology).node)

InitReady ==
    /\ node = ReadyNode
    /\ poisoned = FALSE
    /\ handlers = EmptyBag
    /\ tasks = <<>>
    /\ sent = {}
    /\ reply = NoReply
    /\ received = 0

\* Once initialised the node is sent broadcasts, acknowledgements and reads.
InboundReady == BroadcastMsgs \cup BroadcastOkMsgs \cup ReadMsgs

NextReady ==
    \/ \E m \in InboundReady : HandlerCallback(m)
    \/ \E h \in BagToSet(handlers) : HandlerRespond(h)
    \/ \E i \in DOMAIN tasks : TaskRetry(i)
    \/ \E i \in DOMAIN tasks : TaskFilter(i)
    \/ \E i \in DOMAIN tasks : TaskSend(i)

SpecReady == InitReady /\ [][NextReady]_vars

\* ----------------------------------------------------------------- claims

AllIds == UNION {Ids(tasks[i].mapped) : i \in DOMAIN tasks}
EventsOf(v) == {i \in DOMAIN tasks : tasks[i].value = v}
IsBroadcast(m) == Parses(m) /\ MessageNew(m) = "Broadcast"

\* C1: however many Broadcasts carry a value and however their handlers
\* interleave, at most one dissemination event (one id allocation, one
\* insertion into unacknowledged_messages, one spawned retry task) exists
\* for the value, its value is in messages, and no gossip id belongs to two
\* events or to two neighbors.
C1_IdempotentDedup ==
    /\ \A v \in Values : Cardinality(EventsOf(v)) <= 1
    /\ \A i \in DOMAIN tasks : tasks[i].value \in node.messages
    /\ \A i, j \in DOMAIN tasks :
          i # j => Ids(tasks[i].mapped) \cap Ids(tasks[j].mapped) = {}
    /\ \A i \in DOMAIN tasks :
          Cardinality(Ids(tasks[i].mapped)) = Len(tasks[i].mapped)

\* C1 witness: two Broadcasts of one value from different sources have both
\* run run_callback and are still in flight, and the value has one event
\* with copies to send.
C1_Witness ==
    \E h1, h2 \in BagToSet(handlers) :
        /\ IsBroadcast(h1.msg) /\ IsBroadcast(h2.msg)
        /\ h1.msg.src # h2.msg.src
        /\ h1.msg.message = h2.msg.message
        /\ \E i \in DOMAIN tasks :
              /\ tasks[i].value = h1.msg.message
              /\ tasks[i].mapped # <<>>

\* The (neighbor, message id) pairs of the envelopes written so far.
SentPairs == {<<e.dest, e.msg_id>> : e \in sent}
Stopped(i) == tasks[i].pc \in {"done", "panicked"}

\* C2: every copy of an accepted Broadcast is eventually delivered to its
\* neighbor.  A copy can reach its neighbor only through an envelope the
\* retry task writes, so as long as no envelope has been written for a copy
\* its retry task must still be running.
C2_CopyStillDeliverable ==
    \A i \in DOMAIN tasks :
        \A k \in DOMAIN tasks[i].mapped :
            tasks[i].mapped[k] \notin SentPairs => ~Stopped(i)

\* C3: the retry loop of an event ends once every id of that event has been
\* acknowledged, also while ids of other events are unacknowledged: a loop
\* test taken with none of the event's ids in unacknowledged_messages ends
\* the loop.
C3_LoopEndsWhenOwnIdsAcked ==
    [][\A i \in DOMAIN tasks :
          (/\ tasks[i].pc = "retry"
           /\ tasks[i].mapped # <<>>
           /\ Ids(tasks[i].mapped) \cap node.unacknowledged_messages = {}
           /\ Len(tasks') = Len(tasks)
           /\ tasks'[i].pc # "retry")
          => Stopped(i)']_vars

\* C4: while an id of an event is in unacknowledged_messages the event's
\* retry loop is running.
C4_LoopRunsWhileUnacked ==
    \A i \in DOMAIN tasks :
        Ids(tasks[i].mapped) \cap node.unacknowledged_messages # {}
            => ~Stopped(i)

\* The values of the Broadcasts run_callback has handled: each first arrival
\* of a value spawned one retry task, which is never removed.
HandledValues == {tasks[i].value : i \in DOMAIN tasks}

\* C5: the messages field of a ReadOk reply is exactly the set of distinct
\* values carried by the Broadcasts handled before the reply was built.
C5_ReadReflectsAccepted ==
    reply.type = "read_ok" => reply.messages = HandledValues

\* A read answered after Broadcasts of two different values were handled.
C5_Witness ==
    /\ reply.type = "read_ok"
    /\ Cardinality(reply.messages) = Cardinality(Values)
    /\ Len(tasks) = Cardinality(Values)

\* The step in which run_callback accepts Broadcast m as a new value and
\* spawns its retry task.
Accepts(m) ==
    /\ handlers' = handlers (+) One(Handler(m, "respond", FALSE))
    /\ Len(tasks') = Len(tasks) + 1
    /\ tasks'[Len(tasks')].value = m.message

\* The neighbors a list of (neighbor, id) pairs addresses, in order.
Dests(mapped) == [k \in DOMAIN mapped |-> mapped[k][1]]

C7_IdsFreshAndIncreasing ==
    /\ [][/\ node'.current_message_id >= node.current_message_id
          /\ reply'.type # NoStr =>
                /\ reply'.msg_id = node'.current_message_id
                /\ reply'.msg_id > node.current_message_id
          /\ \A id \in AllIds' \ AllIds :
                /\ id > node.current_message_id
                /\ id <= node'.current_message_id]_vars
    /\ [](/\ reply.type # NoStr => reply.msg_id \notin AllIds
          /\ \A i, j \in DOMAIN tasks :
               \A k \in DOMAIN tasks[i].mapped :
                  \A l \in DOMAIN tasks[j].mapped :
                     tasks[i].mapped[k][2] = tasks[j].mapped[l][2]
                        => i = j /\ k = l)

\* A reply is queued after gossip ids were handed out, with another handler
\* still between its two critical sections.
C7_Witness ==
    /\ reply.type # NoStr
    /\ AllIds # {}
    /\ handlers # EmptyBag

\* C8: every value a node accepts is eventually in the seen set of every
\* node of the cluster.  The other nodes can learn a value this node
\* accepted only from a Broadcast envelope it writes, so for an accepted
\* value with neighbors to tell, an envelope carrying it has been written
\* or its retry task is still running.
C8_AcceptedValueSpreads ==
    \A i \in DOMAIN tasks :
        tasks[i].mapped # <<>> =>
            \/ \E e \in sent : e.message = tasks[i].value
            \/ ~Stopped(i)

\* C9: a Broadcast whose value is already in messages allocates no gossip
\* id, adds nothing to unacknowledged_messages or response_callbacks, spawns
\* nothing and writes no envelope, and its handler answers broadcast_ok to
\* the sender with in_reply_to equal to the request's msg_id.
C9_SeenBroadcastAcked ==
    [][\A m \in BroadcastMsgs :
          LET h == Handler(m, "respond", TRUE)
          IN  /\ handlers' = handlers (+) One(h)
                    => UNCHANGED <<node, tasks, sent>>
              /\ (/\ BagIn(h, handlers)
                  /\ handlers' = handlers (-) One(h)
                  /\ m.src # NoStr)
                    => /\ reply' = Reply("broadcast_ok", node.id, m.src,
                                         node'.current_message_id, m.msg_id,
                                         NoStr, {})
                       /\ UNCHANGED <<tasks, sent>>
                       /\ node'.unacknowledged_messages
                              = node.unacknowledged_messages
                       /\ node'.response_callbacks
                              = node.response_callbacks]_vars

\* C10: whatever lines the node has handled, a valid request sent next is
\* handled: while the node takes another line, the handler of an echo
\* request gets through run_callback and goes on to its reply.
C10_NextRequestHandled ==
    \A m \in EchoMsgs :
        (received < MaxMsgs /\ BagCardinality(handlers) < MaxHandlers)
            => ENABLED (/\ HandlerCallback(m)
                        /\ handlers'
                              = handlers (+) One(Handler(m, "respond", FALSE)))

\* C11: handling a line that does not parse changes no field of the node,
\* starts no handler and no retry task, writes no envelope and queues no
\* reply, and leaves the lock as it was, so that the lines after it are
\* handled as they would have been.
C11_UnparsableLineDropped ==
    [][\A m \in GarbageMsgs :
          HandlerCallback(m)
              => /\ UNCHANGED <<node, poisoned, handlers, tasks, sent>>
                 /\ reply' = NoReply]_vars

\* The lines read so far that did not parse, on a node whose lock is usable:
\* every other line has a handler in flight or has had its reply id
\* allocated.
UnparsableRead ==
    received - BagCardinality(handlers)
        - (node.current_message_id - Cardinality(AllIds))

\* An echo request is answered on a node that has also read a line that did
\* not parse.
C11_Witness ==
    /\ ~poisoned
    /\ UnparsableRead > 0
    /\ reply.type = "echo_ok"

\* C12: a line whose body matches none of the known shapes is classified as
\* Invalid, so it gets a handler, and the handler answers with the Invalid
\* response from this node to the sender.
C12_InvalidFallback ==
    [][\A m \in GarbageMsgs :
          LET h == Handler(m, "respond", FALSE)
          IN  /\ HandlerCallback(m) => handlers' = handlers (+) One(h)
              /\ (BagIn(h, handlers) /\ handlers' = handlers (-) One(h))
                    => reply' = Reply(InvalidBody, node.id, m.src, NoNum,
                                      NoNum, NoStr, {})]_vars

\* C13: a request {type: "generate", msg_id: m} is classified as Generate
\* and answered generate_ok with in_reply_to = m (here on a node that has
\* its id and a usable lock).
C13_GenerateAnswered ==
    [][\A m \in GenerateMsgs :
          LET h == Handler(m, "respond", FALSE)
          IN  (/\ BagIn(h, handlers)
               /\ handlers' = handlers (-) One(h)
               /\ node.id # NoStr
               /\ ~poisoned)
                 => /\ MessageNew(m) = "Generate"
                    /\ reply'.type = "generate_ok"
                    /\ reply'.in_reply_to = m.msg_id]_vars

\* The node with its counter advanced by one and nothing else changed.
OnlySequencerAdvances == node' = next_message_id(node)

\* The step in which handler h ends.
Completes(h) == BagIn(h, handlers) /\ handlers' = handlers (-) One(h)

\* C14: handling a Topology message replaces neighbors by the map's entry
\* for this node's id, or leaves them when the map has no such entry,
\* changes nothing else (seen, pending and unacked in particular), and its
\* handler answers topology_ok with in_reply_to equal to the request's
\* msg_id.
C14_TopologyHandled ==
    [][\A m \in TopologyMsgs :
          LET h == Handler(m, "respond", FALSE)
          IN  /\ HandlerCallback(m)
                    => /\ handlers' = handlers (+) One(h)
                       /\ node' = [node EXCEPT !.topology =
                                      IF node.id \in DOMAIN m.topology
                                      THEN m.topology[node.id] ELSE @]
                       /\ UNCHANGED <<tasks, sent>>
              /\ Completes(h)
                    => /\ reply' = Reply("topology_ok", node.id, m.src,
                                         node'.current_message_id, m.msg_id,
                                         NoStr, {})
                       /\ OnlySequencerAdvances
                       /\ UNCHANGED <<tasks, sent>>]_vars

\* C15: handling an Init with node_id X on a node without an id sets the id
\* to X in run_callback, before the reply is built, and the Init's handler
\* answers init_ok from X to the Init's sender with in_reply_to equal to
\* the Init's msg_id.
C15_InitHandled ==
    [][\A m \in InitMsgs :
          LET h == Handler(m, "respond", FALSE)
          IN  /\ (HandlerCallback(m) /\ node.id = NoStr)
                    => /\ node'.id = m.node_id
                       /\ handlers' = handlers (+) One(h)
              /\ Completes(h)
                    => reply' = Reply("init_ok", m.node_id, m.src,
                                      node'.current_message_id, m.msg_id,
                                      NoStr, {})]_vars

\* C16: once an Init has set the node id, no step changes it.
C16_IdImmutable ==
    [][node.id # NoStr => node'.id = node.id]_vars

\* C17: run_callback changes nothing for an Echo, a Read or a Generate; the
\* rest of their handler changes nothing but the counter; and an echo_ok
\* reply carries the request's echo payload and, as in_reply_to, its msg_id.
C17_NoPreDispatchMutation ==
    [][\A m \in EchoMsgs \cup ReadMsgs \cup GenerateMsgs :
          LET h == Handler(m, "respond", FALSE)
          IN  /\ HandlerCallback(m) => UNCHANGED <<node, tasks, sent>>
              /\ Completes(h)
                    => /\ node' = node \/ OnlySequencerAdvances
                       /\ UNCHANGED <<tasks, sent>>
                       /\ (m \in EchoMsgs /\ reply' # NoReply)
                             => reply' = Reply("echo_ok", node.id, m.src,
                                               node'.current_message_id,
                                               m.msg_id, m.echo, {})]_vars

\* An echo request is answered on a node that holds broadcast values.
C17_Witness ==
    /\ reply.type = "echo_ok"
    /\ reply.echo # NoStr
    /\ node.messages # {}

\* The step in which retry task i writes an envelope (one send_message).
Writes(i) ==
    /\ tasks[i].pc = "send"
    /\ tasks'[i] # tasks[i]
    /\ tasks'[i].pc # "panicked"

\* C18: the pairs of an event are fixed when its Broadcast is accepted: each
\* addresses an entry of the neighbor list of that moment and none the
\* Broadcast's sender; they never change afterwards; and every envelope a
\* retry task writes, first send or retry, is addressed by one of the pairs
\* of its own event.
C18_NeverEchoesBack ==
    [][/\ \A m \in BroadcastMsgs :
             Accepts(m) =>
                \A p \in Range(tasks'[Len(tasks')].mapped) :
                    p[1] \in Range(node.topology) /\ p[1] # m.src
       /\ \A i \in DOMAIN tasks :
             /\ tasks'[i].mapped = tasks[i].mapped
             /\ Writes(i) =>
                   /\ Head(tasks[i].todo) \in Range(tasks[i].mapped)
                   /\ sent' = sent \cup
                         {Envelope(node, tasks[i].value,
                                   Head(tasks[i].todo)[1],
                                   Head(tasks[i].todo)[2])}]_vars

\* A Broadcast from the listed neighbor n2 was accepted, its event has a
\* copy for another neighbor only, and that copy has been written.
C18_Witness ==
    \E h \in BagToSet(handlers) :
        /\ h.msg.src \in Range(node.topology)
        /\ IsBroadcast(h.msg) /\ ~h.seen
        /\ \E i \in DOMAIN tasks :
              /\ tasks[i].value = h.msg.message
              /\ tasks[i].mapped # <<>>
              /\ Range(tasks[i].mapped) \subseteq SentPairs
              /\ \A e \in sent : e.dest # h.msg.src

\* C19: all envelopes written for one value to one neighbor carry the same
\* msg_id (and so repeat the first one), and no step of a retry task
\* advances the counter.
C19_RetriesReuseId ==
    /\ [](\A e1, e2 \in sent :
             (e1.message = e2.message /\ e1.dest = e2.dest)
                => e1.msg_id = e2.msg_id)
    /\ [][\A i \in DOMAIN tasks :
             tasks'[i] # tasks[i]
                => node'.current_message_id = node.current_message_id]_vars

\* A retry task is in its second round or later: of its two copies it has
\* written the first again and is about to write again the second, which
\* it has written before.
C19_Witness ==
    \E i \in DOMAIN tasks :
        /\ tasks[i].pc = "send"
        /\ Len(tasks[i].mapped) = Cardinality(Peers)
        /\ tasks[i].todo = Tail(tasks[i].mapped)
        /\ Head(tasks[i].todo) \in SentPairs

\* C20: handling a BroadcastOk addressed to this node whose in_reply_to has
\* an entry in response_callbacks removes that id from response_callbacks
\* and from unacknowledged_messages; any other BroadcastOk leaves both as
\* they are; in neither case is a reply produced.
C20_BroadcastOkCorrelation ==
    [][\A m \in BroadcastOkMsgs :
          LET h == Handler(m, "respond", FALSE)
              id == m.in_reply_to
          IN  /\ HandlerCallback(m)
                    => /\ reply' = NoReply
                       /\ IF m.dest = node.id
                             /\ id \in node.response_callbacks
                          THEN node' =
                                 [node EXCEPT
                                     !.response_callbacks = @ \ {id},
                                     !.unacknowledged_messages = @ \ {id}]
                          ELSE UNCHANGED node
              /\ Completes(h)
                    => /\ reply' = NoReply
                       /\ node' = node \/ OnlySequencerAdvances]_vars

\* The step in which run_callback handles acknowledgment m and calls the
\* callback stored for its in_reply_to.
Invokes(m) ==
    /\ HandlerCallback(m)
    /\ ~poisoned
    /\ MessageNew(m) = "BroadcastOk"
    /\ m.dest = node.id
    /\ m.in_reply_to \in node.response_callbacks

\* C21: the callback stored for a gossip id is called at most once.  An id
\* leaves unacknowledged_messages only in the call of its callback and is
\* never put back, so every call finds its id still in
\* unacknowledged_messages.
C21_ContinuationCalledOnce ==
    [][\A m \in BroadcastOkMsgs :
          Invokes(m) => m.in_reply_to \in node.unacknowledged_messages]_vars

\* ------------------------------------------------- the two locks, stepwise

\* The locks each critical section of node.rs takes, in the order it takes
\* them.  "state" is the Mutex around the Node, "unacked" the Mutex around
\* unacknowledged_messages.  Guards are dropped at the end of the section.

\* The stored callback run with both locks asked for anew.
callback_locksState == <<"state", "unacked">>

\* The callback send_message stores is called with the state guard and
\* locks unacknowledged_messages.
callback_locks == <<"unacked">>

retry_locks == <<"state", "unacked">>
filter_messages_locks == <<"state", "unacked">>
send_message_locks == <<"state">>
\* handle_from_stdin after run_callback: node.lock().
respond_locks == <<"state">>

\* Node::run_callback locks the state; the BroadcastOk arm that finds a
\* callback calls it; the Broadcast arm locks unacknowledged_messages to
\* insert the ids of a new value (once per id, each time under the state
\* lock and released at once: taken here as one acquisition).
run_callback_locks(n, m) ==
    LET r == run_callback(n, m)
    IN  IF r.panic THEN <<"state">>
        ELSE IF MessageNew(m) = "BroadcastOk" /\ m.dest = n.id
                  /\ m.in_reply_to \in n.response_callbacks
             THEN <<"state">> \o callback_locks
        ELSE IF r.spawn # <<>> /\ r.spawn[1].mapped # <<>>
             THEN <<"state", "unacked">>
        ELSE <<"state">>

\* A thread's position: the section it is at and how many of the section's
\* locks it holds.  Depth 0 is the section's name, the pc of the threads
\* above.
Sections == {"run_callback", "respond", "retry", "filter", "send"}
Depths == 0 .. 2
At(section, k) ==
    IF k = 0 THEN section
    ELSE IF k = 1 THEN section \o ":1"
    ELSE section \o ":2"
Where ==
    [pc \in {At(w[1], w[2]) : w \in Sections \X Depths} |->
        CHOOSE w \in Sections \X Depths : At(w[1], w[2]) = pc]
InSection(pc) == pc \in DOMAIN Where
SectionOf(pc) == Where[pc][1]
DepthOf(pc) == Where[pc][2]

HandlerLocks(h) ==
    IF SectionOf(h.pc) = "run_callback" THEN run_callback_locks(node, h.msg)
    ELSE respond_locks
TaskLocks(i) ==
    LET s == SectionOf(tasks[i].pc)
    IN  IF s = "retry" THEN retry_locks
        ELSE IF s = "filter" THEN filter_messages_locks
        ELSE send_message_locks

\* The locks a thread at pc holds, of the list its section takes.
Held(pc, locks) ==
    IF InSection(pc) THEN {locks[j] : j \in 1 .. DepthOf(pc)} ELSE {}
HeldByHandler(h) == Held(h.pc, HandlerLocks(h))
HeldByTask(i) ==
    IF InSection(tasks[i].pc) THEN Held(tasks[i].pc, TaskLocks(i)) ELSE {}
AllHeld ==
    UNION ({HeldByHandler(h) : h \in BagToSet(handlers)}
             \cup {HeldByTask(i) : i \in DOMAIN tasks})
Free(lock) == lock \notin AllHeld

\* The first lock of a handler: mutex.lock() in run_callback.  A line that
\* does not parse never gets there; on a poisoned lock the handler panics.
RunCallbackLock(m) ==
    /\ received < MaxMsgs
    /\ BagCardinality(handlers) < MaxHandlers
    /\ Parses(m) => Free("state")
    /\ received' = received + 1
    /\ reply' = NoReply
    /\ UNCHANGED <<node, poisoned, tasks, sent>>
    /\ handlers' =
         IF ~Parses(m) \/ poisoned THEN handlers
         ELSE handlers
                (+) One(Handler(m, At("run_callback", 1),
                                /\ MessageNew(m) = "Broadcast"
                                /\ is_message_seen(node, m)))

\* A handler inside run_callback takes the next lock of its section.
HandlerAcquire(h) ==
    /\ BagIn(h, handlers)
    /\ InSection(h.pc) /\ DepthOf(h.pc) >= 1
    /\ DepthOf(h.pc) < Len(HandlerLocks(h))
    /\ Free(HandlerLocks(h)[DepthOf(h.pc) + 1])
    /\ handlers' = (handlers (-) One(h))
                      (+) One(Handler(h.msg,
                                      At(SectionOf(h.pc), DepthOf(h.pc) + 1),
                                      h.seen))
    /\ reply' = NoReply
    /\ UNCHANGED <<node, poisoned, tasks, sent, received>>

\* run_callback returns (or unwinds): what the arm did becomes visible and
\* the guards are dropped.
RunCallbackUnlock(h) ==
    /\ BagIn(h, handlers)
    /\ InSection(h.pc) /\ SectionOf(h.pc) = "run_callback"
    /\ DepthOf(h.pc) = Len(HandlerLocks(h))
    /\ LET r == run_callback(node, h.msg)
       IN  /\ node' = r.node
           /\ poisoned' = r.panic
           /\ tasks' = tasks \o r.spawn
           /\ handlers' =
                IF r.panic THEN handlers (-) One(h)
                ELSE (handlers (-) One(h))
                        (+) One(Handler(h.msg, "respond", h.seen))
    /\ reply' = NoReply
    /\ UNCHANGED <<sent, received>>

\* node.lock().unwrap() of handle_from_stdin.
RespondLock(h) ==
    /\ BagIn(h, handlers)
    /\ h.pc = "respond"
    /\ Free("state")
    /\ handlers' =
         IF poisoned THEN handlers (-) One(h)
         ELSE (handlers (-) One(h))
                 (+) One(Handler(h.msg, At("respond", 1), h.seen))
    /\ reply' = NoReply
    /\ UNCHANGED <<node, poisoned, tasks, sent, received>>

\* The reply id is allocated and the reply built; the guard is dropped.
RespondUnlock(h) ==
    /\ BagIn(h, handlers)
    /\ h.pc = At("respond", 1)
    /\ handlers' = handlers (-) One(h)
    /\ UNCHANGED <<tasks, sent, received>>
    /\ LET locked == next_message_id(node)
           b == generate_response(locked, h.msg, locked.current_message_id)
       IN  /\ node' = locked
           /\ poisoned' = b.panic
           /\ reply' = b.reply

\* A retry task takes the next lock of the section it is at.
TaskAcquire(i) ==
    /\ InSection(tasks[i].pc)
    /\ SectionOf(tasks[i].pc) \in {"retry", "filter", "send"}
    /\ DepthOf(tasks[i].pc) < Len(TaskLocks(i))
    /\ Free(TaskLocks(i)[DepthOf(tasks[i].pc) + 1])
    /\ SetTask(i, IF DepthOf(tasks[i].pc) = 0 /\ poisoned THEN "panicked"
                  ELSE At(SectionOf(tasks[i].pc), DepthOf(tasks[i].pc) + 1),
               tasks[i].todo)
    /\ reply' = NoReply
    /\ UNCHANGED <<node, poisoned, handlers, sent, received>>

\* Node::retry, Node::filter_messages or Node::send_message returns.
TaskUnlock(i) ==
    /\ InSection(tasks[i].pc)
    /\ SectionOf(tasks[i].pc) \in {"retry", "filter", "send"}
    /\ DepthOf(tasks[i].pc) = Len(TaskLocks(i))
    /\ reply' = NoReply
    /\ UNCHANGED <<poisoned, handlers, received>>
    /\ LET s == SectionOf(tasks[i].pc)
       IN  IF s = "retry"
           THEN /\ SetTask(i, IF retry(node) THEN "filter" ELSE "done", <<>>)
                /\ UNCHANGED <<node, sent>>
           ELSE IF s = "filter"
           THEN LET todo == filter_messages(node, tasks[i].mapped)
                IN  /\ SetTask(i, IF todo = <<>> THEN "retry" ELSE "send",
                               todo)
                    /\ UNCHANGED <<node, sent>>
           ELSE LET p == Head(tasks[i].todo)
                    rest == Tail(tasks[i].todo)
                IN  /\ sent' = sent \cup {Envelope(node, tasks[i].value,
                                                   p[1], p[2])}
                    /\ node' = send_message(node, p[2])
                    /\ SetTask(i, IF rest = <<>> THEN "retry" ELSE "send",
                               rest)

\* The lines fed to the node while its locks are followed: the Broadcasts
\* (one of them panics in its arm), acknowledgments with and without a
\* callback to call, and a read whose reply panics.
InboundLocks ==
    BroadcastMsgs
      \cup {m \in BroadcastOkMsgs : m.src = "n2" /\ m.in_reply_to >= 2}
      \cup {m \in ReadMsgs : m.msg_id = NoNum}

\* The steps of the threads that exist.
ThreadStep ==
    \/ \E h \in BagToSet(handlers) : HandlerAcquire(h)
    \/ \E h \in BagToSet(handlers) : RunCallbackUnlock(h)
    \/ \E h \in BagToSet(handlers) : RespondLock(h)
    \/ \E h \in BagToSet(handlers) : RespondUnlock(h)
    \/ \E i \in DOMAIN tasks : TaskAcquire(i)
    \/ \E i \in DOMAIN tasks : TaskUnlock(i)

NextLocks ==
    \/ \E m \in InboundLocks : RunCallbackLock(m)
    \/ \E h \in BagToSet(handlers) : HandlerAcquire(h)
    \/ \E h \in BagToSet(handlers) : RunCallbackUnlock(h)
    \/ \E h \in BagToSet(handlers) : RespondLock(h)
    \/ \E h \in BagToSet(handlers) : RespondUnlock(h)
    \/ \E i \in DOMAIN tasks : TaskAcquire(i)
    \/ \E i \in DOMAIN tasks : TaskUnlock(i)

SpecLocks == InitReady /\ [][NextLocks]_vars

\* The lock a thread inside a section asks for next, if any.
Wanted(pc, locks) ==
    IF InSection(pc) /\ DepthOf(pc) < Len(locks)
    THEN {locks[DepthOf(pc) + 1]} ELSE {}
Alive ==
    \/ handlers # EmptyBag
    \/ \E i \in DOMAIN tasks : ~Stopped(i)

\* C22: a thread that holds the unacked lock holds the state lock (it took
\* the state lock first); no thread asks for a lock it holds, so the
\* BroadcastOk callback, called with the state lock held, does not ask for
\* it again; and as long as a handler or a retry loop has not ended, some
\* handler or retry loop can take a step, so they never all wait for each
\* other.
C22_LockDiscipline ==
    /\ \A h \in BagToSet(handlers) :
          /\ "unacked" \in HeldByHandler(h) => "state" \in HeldByHandler(h)
          /\ Wanted(h.pc, HandlerLocks(h)) \cap HeldByHandler(h) = {}
    /\ \A i \in DOMAIN tasks :
          /\ "unacked" \in HeldByTask(i) => "state" \in HeldByTask(i)
          /\ InSection(tasks[i].pc) =>
                Wanted(tasks[i].pc, TaskLocks(i)) \cap HeldByTask(i) = {}
    /\ Alive => ENABLED ThreadStep

\* The callback of an acknowledged id runs with both locks held while a
\* retry loop and another handler wait for the state lock.
C22_Witness ==
    /\ \E h \in BagToSet(handlers) :
          /\ MessageNew(h.msg) = "BroadcastOk"
          /\ HeldByHandler(h) = {"state", "unacked"}
    /\ \E h \in BagToSet(handlers) : h.pc = "respond"
    /\ \E i \in DOMAIN tasks : tasks[i].pc \in {"retry", "filter", "send"}

\* C23: once the acknowledgment of a gossip id has been handled, no envelope
\* with that id is written: every send_message of a retry task writes an id
\* that is in unacknowledged_messages at that moment.
C23_OnlyUnackedRetried ==
    [][\A i \in DOMAIN tasks :
          Writes(i)
             => Head(tasks[i].todo)[2] \in node.unacknowledged_messages]_vars

\* The message ids of the envelopes written so far.
SentIds == {e.msg_id : e \in sent}

\* C24 (amended): every id in unacknowledged_messages was allocated for a
\* copy of an accepted Broadcast and its acknowledgment has not been
\* handled: ids enter the set only when they are allocated, the handling of
\* an id's acknowledgment takes it out, and an id that is out stays out.
\* (Its envelope may not have been written yet.)
C24_UnackedAreGossipIds ==
    /\ [](node.unacknowledged_messages \subseteq AllIds)
    /\ [][/\ \A id \in node'.unacknowledged_messages :
                id \in node.unacknowledged_messages \/ id \notin AllIds
          /\ \A m \in BroadcastOkMsgs :
                Invokes(m)
                   => m.in_reply_to \notin node'.unacknowledged_messages]_vars

\* Of the two copies of an accepted Broadcast one has been acknowledged and
\* the other has been written and is still unacknowledged.
C24_Witness ==
    \E i \in DOMAIN tasks :
        /\ Ids(tasks[i].mapped) \ node.unacknowledged_messages # {}
        /\ Ids(tasks[i].mapped) \cap node.unacknowledged_messages
              \cap SentIds # {}

\* C24 as stated: every id in unacknowledged_messages has been written in
\* an envelope.
C24_UnackedAlreadyEmitted ==
    node.unacknowledged_messages \subseteq SentIds

C26_SeenAppendOnly ==
    [][/\ node.messages \subseteq node'.messages
       /\ node'.messages # node.messages
             => \E m \in BroadcastMsgs :
                   /\ HandlerCallback(m)
                   /\ node'.messages = node.messages \cup {m.message}]_vars

\* An Init is answered on a node that holds both broadcast values.
C26_Witness ==
    /\ node.messages = Values
    /\ reply.type = "init_ok"

\* C27: a reply is queued only by the step in which the handler of its
\* request ends, so once per request; it answers that request with an id
\* never used before.  The steps of a retry task queue no reply, and they
\* are the only steps that write Broadcast envelopes, which they may write
\* again.
C27_RepliesNotRetried ==
    [][/\ reply' # NoReply
             => \E h \in BagToSet(handlers) :
                   /\ Completes(h)
                   /\ reply'.dest = h.msg.src
                   /\ reply'.in_reply_to = h.msg.msg_id
                   /\ reply'.msg_id > node.current_message_id
       /\ \A i \in DOMAIN tasks :
             tasks'[i] # tasks[i]
                => reply' = NoReply /\ handlers' = handlers
       /\ sent' # sent => \E i \in DOMAIN tasks : Writes(i)]_vars

\* A Broadcast is answered while the retry task of its value is about to
\* write a copy another time.
C27_Witness ==
    /\ reply.type = "broadcast_ok"
    /\ \E i \in DOMAIN tasks :
          /\ tasks[i].pc = "send"
          /\ Head(tasks[i].todo) \in SentPairs

\* The (neighbor, value) pairs the node has set out to disseminate.
PairsOf(spawn) ==
    UNION {{<<p[1], spawn[i].value>> : p \in Range(spawn[i].mapped)} :
              i \in DOMAIN spawn}
Disseminated == PairsOf(tasks)

\* run_callback applied to the messages of a set one after the other, in
\* one fixed order: the values seen and the pairs set out in the end.  After
\* a panic under the lock the handlers of the remaining messages panic at
\* the lock.
RECURSIVE HandleAll(_, _)
HandleAll(n, msgs) ==
    IF msgs = {} THEN [messages |-> n.messages, pairs |-> {}]
    ELSE LET m == CHOOSE x \in msgs : TRUE
             r == run_callback(n, m)
             rest == IF r.panic
                     THEN [messages |-> r.node.messages, pairs |-> {}]
                     ELSE HandleAll(r.node, msgs \ {m})
         IN  [messages |-> rest.messages,
              pairs |-> PairsOf(r.spawn) \cup rest.pairs]

\* Every line read so far is a Broadcast whose handler has been through
\* run_callback and has not answered yet: the handlers in flight are the
\* bag of Broadcasts delivered.
BagKnown ==
    /\ received = BagCardinality(handlers)
    /\ \A h \in BagToSet(handlers) : IsBroadcast(h.msg) /\ h.pc = "respond"
Delivered == {h.msg : h \in BagToSet(handlers)}

\* C28: after a bag of Broadcasts has been handled, messages and the pairs
\* set out are the same for every delivery order and every duplication of
\* the bag, so they are those that handling its distinct Broadcasts in one
\* fixed order gives.
C28_OrderIndependent ==
    BagKnown
       => /\ node.messages = HandleAll(ReadyNode, Delivered).messages
          /\ Disseminated = HandleAll(ReadyNode, Delivered).pairs

\* C29: when a handler queues broadcast_ok for a Broadcast, the value of
\* that Broadcast is in messages, and it has been since the handler's
\* run_callback returned.
C29_AckedImpliesAccepted ==
    [][/\ \A m \in BroadcastMsgs :
             (HandlerCallback(m) /\ handlers' # handlers)
                => m.message \in node'.messages
       /\ \A h \in BagToSet(handlers) :
             IsBroadcast(h.msg)
                => /\ h.msg.message \in node.messages
                   /\ (Completes(h) /\ reply'.type = "broadcast_ok")
                         => /\ h.msg.message \in node'.messages
                            /\ reply'.in_reply_to = h.msg.msg_id]_vars

\* A Broadcast of a value the node had seen before is answered.
C29_Witness ==
    /\ reply.type = "broadcast_ok"
    /\ \E i \in DOMAIN tasks :
          /\ tasks[i].value = 1
          /\ reply.dest \in Range(node.topology)
          /\ reply.dest \in {p[1] : p \in Range(tasks[i].mapped)}

\* C30: between critical sections every key of response_callbacks is an id
\* in unacknowledged_messages; so with every gossip id acknowledged and
\* every retry loop ended, response_callbacks is empty.
C30_NoStaleContinuations ==
    /\ node.response_callbacks \subseteq node.unacknowledged_messages
    /\ (/\ node.unacknowledged_messages = {}
        /\ \A i \in DOMAIN tasks : Stopped(i))
          => node.response_callbacks = {}

\* ------------------------------------- topology changes during retry loops

\* The initialised node is sent clients' Broadcasts and Topology messages.
InboundTopology ==
    {m \in BroadcastMsgs : m.src \in Clients} \cup TopologyMsgs

NextTopology ==
    \/ \E m \in InboundTopology : HandlerCallback(m)
    \/ \E h \in BagToSet(handlers) : HandlerRespond(h)
    \/ \E i \in DOMAIN tasks : TaskRetry(i)
    \/ \E i \in DOMAIN tasks : TaskFilter(i)
    \/ \E i \in DOMAIN tasks : TaskSend(i)

SpecTopology == InitReady /\ [][NextTopology]_vars

\* C31: the pairs of an event never change once its Broadcast is accepted,
\* and every envelope a retry task writes is addressed by one of them,
\* whatever the neighbor list has become.  Handling a Topology message
\* changes nothing but the neighbor list (and, with its reply, the
\* counter): it leaves the retry tasks, unacknowledged_messages and
\* response_callbacks as they are, spawns nothing and writes nothing, so
\* values already in messages are not sent to newly listed neighbors.
C31_FanOutFixedAtAcceptance ==
    [][/\ \A i \in DOMAIN tasks :
             /\ tasks'[i].mapped = tasks[i].mapped
             /\ tasks'[i].value = tasks[i].value
             /\ Writes(i) =>
                   /\ Head(tasks[i].todo) \in Range(tasks[i].mapped)
                   /\ sent' \ sent \subseteq
                         {e \in sent' :
                             /\ e.message = tasks[i].value
                             /\ <<e.dest, e.msg_id>> = Head(tasks[i].todo)}
       /\ \A m \in TopologyMsgs :
             LET h == Handler(m, "respond", FALSE)
             IN  /\ HandlerCallback(m)
                       => /\ UNCHANGED <<tasks, sent>>
                          /\ \E t \in {node.topology} \cup Range(m.topology) :
                                node' = [node EXCEPT !.topology = t]
                 /\ Completes(h)
                       => /\ UNCHANGED <<tasks, sent>>
                          /\ node' = node \/ OnlySequencerAdvances]_vars

\* A retry task is about to write a copy to n3, which a Topology message
\* handled after the acceptance has taken off the neighbor list.
C31_Witness ==
    /\ node.topology = <<"n2">>
    /\ \E i \in DOMAIN tasks :
          /\ tasks[i].pc = "send"
          /\ Head(tasks[i].todo)[1] = "n3"
          /\ Head(tasks[i].todo) \in SentPairs

\* C32: the reply to a Broadcast does not wait for the dissemination: while
\* the handler of a Broadcast is between run_callback and its reply, the
\* step that queues its broadcast_ok can be taken whatever ids are in
\* unacknowledged_messages and whatever the retry tasks have done (on a
\* poisoned lock no handler gets to its reply).
C32_ReplyDoesNotWait ==
    \A h \in BagToSet(handlers) :
        (/\ IsBroadcast(h.msg)
         /\ h.msg.src # NoStr /\ h.msg.msg_id # NoNum
         /\ ~poisoned)
           => ENABLED (/\ HandlerRespond(h)
                       /\ reply'.type = "broadcast_ok"
                       /\ reply'.dest = h.msg.src
                       /\ reply'.in_reply_to = h.msg.msg_id)

\* The one Broadcast handled so far has been answered while both ids of its
\* event are unacknowledged and no envelope has been written.
C32_Witness ==
    /\ reply.type = "broadcast_ok"
    /\ received = 1
    /\ sent = {}
    /\ Len(tasks) = 1
    /\ Len(tasks[1].mapped) = Cardinality(Peers)
    /\ Ids(tasks[1].mapped) \subseteq node.unacknowledged_messages

\* C33: the sender of an acknowledgment plays no part in its handling: the
\* run_callback of a BroadcastOk does what it would do for the same
\* acknowledgment from any other peer, and when it finds the callback of
\* the id (Invokes) it removes the id from response_callbacks and from
\* unacknowledged_messages.
C33_CorrelatedByInReplyTo ==
    [][\A m \in BroadcastOkMsgs :
          HandlerCallback(m)
             => /\ \A s \in Peers \cup Clients :
                      run_callback(node, [m EXCEPT !.src = s])
                         = run_callback(node, m)
                /\ Invokes(m)
                      => node' = [node EXCEPT
                                     !.response_callbacks =
                                        @ \ {m.in_reply_to},
                                     !.unacknowledged_messages =
                                        @ \ {m.in_reply_to}]]_vars

\* The copy with id 3 was written to n2, and the only acknowledgment read
\* so far, which came from n3, has taken 3 out of unacknowledged_messages.
C33_Witness ==
    /\ received = 2
    /\ <<"n2", 3>> \in SentPairs
    /\ 3 \notin node.unacknowledged_messages
    /\ \E h \in BagToSet(handlers) :
          /\ MessageNew(h.msg) = "BroadcastOk"
          /\ h.msg.src = "n3"
          /\ h.msg.in_reply_to = 3

\* The gossip ids the step allocates (those of the retry task it spawns).
Allocated == AllIds' \ AllIds

\* C34: handling a parsed message advances the counter by 1 plus the number
\* of copies it creates: its run_callback by the number of gossip ids it
\* allocates, after which the handler goes on to its second critical
\* section, which advances the counter by 1, for a BroadcastOk too, and
\* gives a reply an id above every gossip id.
C34_SequencerAccounting ==
    [][/\ \A m \in Inbound :
             (Parses(m) /\ HandlerCallback(m))
                => /\ node'.current_message_id
                         = node.current_message_id + Cardinality(Allocated)
                   /\ \E seen \in BOOLEAN :
                         handlers' = handlers (+) One(Handler(m, "respond",
                                                              seen))
       /\ \A h \in BagToSet(handlers) :
             Completes(h)
                => /\ node'.current_message_id
                         = node.current_message_id + 1
                   /\ Allocated = {}
                   /\ reply' # NoReply
                         => \A id \in AllIds : reply'.msg_id > id]_vars

====
